---------------------------- MODULE Spec2Model ----------------------------
(***************************************************************************)
(* Model of app.py, the Gwalior traffic forecaster: a Streamlit script     *)
(* that is run from the top on every user interaction.  The model has      *)
(*   - the pure helpers get_traffic_status, get_live_weather,              *)
(*     get_route_details, get_location_options and the assembly of the     *)
(*     feature row, as operators;                                          *)
(*   - the session (st.session_state), the two st.cache_data caches the    *)
(*     predict stage reads, and one action per button / script run.        *)
(*                                                                         *)
(* Python values:  None is <<>> and a value v that may be None is <<v>>;   *)
(* a dict is a function whose DOMAIN is the set of its keys; a float that  *)
(* is a quotient of two numbers is kept as the pair of the two numbers.    *)
(***************************************************************************)
EXTENDS Integers, Sequences, FiniteSets, TLC

VARIABLES
    TOMTOM_API_KEY,  \* st.secrets.get("TOMTOM_API_KEY", "")
    session_state,   \* st.session_state: a dict, keys written so far
    weather_cache,   \* st.cache_data store of get_live_weather (ttl 600)
    route_cache,     \* st.cache_data store of get_route_details (ttl 60)
    rerun_requested, \* st.rerun() was called: the next run is its rerun
    last_run,        \* what the last run of the script did
    request,         \* bookkeeping of the current prediction request
    call             \* a helper function under test: arguments and return

vars == <<TOMTOM_API_KEY, session_state, weather_cache, route_cache,
          rerun_requested, last_run, request, call>>

---------------------------------------------------------------------------
(* Bounds of the model *)

\* predicted and base times of the get_traffic_status harness are
\* multiples of TimeStep seconds, between -MaxSteps and MaxSteps steps
TimeStep == 50
MaxSteps == 24
\* weather condition strings are up to MaxWords words of WeatherWords
MaxWords == 2
\* timestamps of the assembly harness: hours 0..MaxHour after a Monday 00:00
MaxHour == 191
\* plain reruns of the script while one request is on the predict screen
MaxReruns == 1
\* results in one geocoding response
MaxGeoResults == 2

---------------------------------------------------------------------------
(* Python values *)

None == <<>>
Some(v) == <<v>>
Val(x) == x[1]
\* truth value of a number-or-None: None and 0 are falsy
Truthy(x) == x # None /\ Val(x) # 0

\* d[k] = v on a dict
Put(d, k, v) == [q \in DOMAIN d \cup {k} |-> IF q = k THEN v ELSE d[q]]
\* del d[k]
Del(d, k) == [q \in DOMAIN d \ {k} |-> d[q]]
EmptyDict == <<>>

\* `needle in hay` on strings
Contains(hay, needle) ==
    \E i \in 1..(Len(hay) - Len(needle) + 1) :
        SubSeq(hay, i, i + Len(needle) - 1) = needle

\* a / b for b # 0: the quotient as the pair of its terms
TrueDiv(a, b) == [num |-> a, den |-> b]
\* r < n/d and r >= n/d for r = num/den (den # 0), n/d a positive literal
RatLess(r, n, d) ==
    IF r.den > 0 THEN r.num * d < n * r.den ELSE r.num * d > n * r.den
RatGeq(r, n, d) == ~RatLess(r, n, d)

---------------------------------------------------------------------------
(* get_traffic_status *)

Unknown == <<"Unknown", "white circle">>
Light == <<"Light Traffic", "green circle">>
Moderate == <<"Moderate Traffic", "yellow circle">>
Heavy == <<"Heavy Traffic", "red circle">>

\* the guard with the zero test left out: only None is caught
MutBaseTimeMissingNoneOnly(base_time) == base_time = None

\* the guard of line 97 on a base_time that is a number or None
BaseTimeMissing(base_time) == ~Truthy(base_time) \/ Val(base_time) = 0

\* the comparisons of lines 99-101 on the quotient
StatusOfRatio(ratio) ==
    IF RatLess(ratio, 12, 10) THEN Light
    ELSE IF RatGeq(ratio, 12, 10) /\ RatLess(ratio, 16, 10) THEN Moderate
    ELSE Heavy

\* what the call gives when line 98 divides by zero
ZeroDivisionError == <<"ZeroDivisionError", "raised">>

\* predicted_time is a number, base_time a number or None
get_traffic_status(predicted_time, base_time) ==
    IF BaseTimeMissing(base_time) THEN Unknown
    ELSE IF Val(base_time) = 0 THEN ZeroDivisionError
    ELSE StatusOfRatio(TrueDiv(predicted_time, Val(base_time)))

---------------------------------------------------------------------------
(* get_live_weather *)

RaisedResponse == [raised |-> "RequestException"]

\* the except branch giving the cloudy code
MutWeatherDefaultCloudy(response) ==
    IF \/ "raised" \in DOMAIN response
       \/ "weather" \notin DOMAIN response
    THEN <<1, "Clear (default)">>
    ELSE <<0, "Clear (" \o response.weather[1].main \o ")">>

\* the two branches tested in the other order: 'Clouds' first
MutWeatherCloudsFirst(response) ==
    IF "raised" \in DOMAIN response THEN <<0, "Clear (default)">>
    ELSE IF "weather" \notin DOMAIN response THEN <<0, "Clear (default)">>
    ELSE IF Len(response.weather) = 0 THEN <<0, "Clear (default)">>
    ELSE IF "main" \notin DOMAIN response.weather[1]
         THEN <<0, "Clear (default)">>
    ELSE LET weather_main == response.weather[1].main
         IN  IF Contains(weather_main, "Clouds")
             THEN <<1, "Cloudy (" \o weather_main \o ")">>
             ELSE IF \/ Contains(weather_main, "Rain")
                     \/ Contains(weather_main, "Drizzle")
                     \/ Contains(weather_main, "Thunderstorm")
             THEN <<2, "Rainy (" \o weather_main \o ")">>
             ELSE <<0, "Clear (" \o weather_main \o ")">>

\* the body of get_live_weather on the value of requests.get(url).json(),
\* or on the exception it raised; returns (code, description)
get_live_weather(response) ==
    IF "raised" \in DOMAIN response THEN <<0, "Clear (default)">>
    ELSE IF "weather" \notin DOMAIN response THEN <<0, "Clear (default)">>
    ELSE IF Len(response.weather) = 0 THEN <<0, "Clear (default)">>
    ELSE IF "main" \notin DOMAIN response.weather[1]
         THEN <<0, "Clear (default)">>
    ELSE LET weather_main == response.weather[1].main
         IN  IF \/ Contains(weather_main, "Rain")
                \/ Contains(weather_main, "Drizzle")
                \/ Contains(weather_main, "Thunderstorm")
             THEN <<2, "Rainy (" \o weather_main \o ")">>
             ELSE IF Contains(weather_main, "Clouds")
             THEN <<1, "Cloudy (" \o weather_main \o ")">>
             ELSE <<0, "Clear (" \o weather_main \o ")">>

WeatherResponse(main) == [weather |-> <<[main |-> main]>>]

---------------------------------------------------------------------------
(* get_route_details *)

NoRoute == <<None, None, None>>

\* summary.get(key): the value or None
SummaryGet(summary, key) ==
    IF key \in DOMAIN summary THEN Some(summary[key]) ELSE None

\* summary.get(key, default)
SummaryGetOr(summary, key, default) ==
    IF key \in DOMAIN summary THEN Some(summary[key]) ELSE default

\* the test of line 89 that decides whether the route is returned
RouteUsable(live_time, base_time) == Truthy(live_time) /\ Truthy(base_time)

\* the body of get_route_details on the value of requests.get(url).json(),
\* or on the exception it raised; returns (live_time, base_time, geometry)
get_route_details(response) ==
    IF "raised" \in DOMAIN response THEN NoRoute
    ELSE IF "routes" \in DOMAIN response /\ Len(response.routes) > 0
    THEN LET route == response.routes[1]
         IN  IF "summary" \notin DOMAIN route THEN NoRoute    \* KeyError
             ELSE
             LET summary == route.summary
                 live_time ==
                     SummaryGetOr(summary, "trafficTravelTimeInSeconds",
                                  SummaryGet(summary, "travelTimeInSeconds"))
                 base_time == SummaryGet(summary, "travelTimeInSeconds")
             IN  IF "legs" \notin DOMAIN route \/ Len(route.legs) = 0
                 THEN NoRoute                        \* KeyError, IndexError
                 ELSE IF "points" \notin DOMAIN route.legs[1] THEN NoRoute
                 ELSE
                 LET points == route.legs[1].points
                     route_geometry ==
                         [i \in 1..Len(points) |->
                             <<points[i].latitude, points[i].longitude>>]
                 IN  IF RouteUsable(live_time, base_time)
                     THEN <<live_time, base_time, Some(route_geometry)>>
                     ELSE NoRoute
    ELSE NoRoute

---------------------------------------------------------------------------
(* get_location_options *)

\* the dict comprehension of line 68: later results replace earlier ones
\* of the same address
RECURSIVE OptionsOf(_)
OptionsOf(results) ==
    IF results = <<>> THEN EmptyDict
    ELSE LET res == results[Len(results)]
         IN  Put(OptionsOf(SubSeq(results, 1, Len(results) - 1)),
                 res.address, res.position)

\* the body of get_location_options on the value of
\* requests.get(url).json(), or on the exception it raised
get_location_options(response) ==
    IF "raised" \in DOMAIN response THEN EmptyDict
    ELSE IF "results" \notin DOMAIN response THEN EmptyDict   \* KeyError
    ELSE IF Len(response.results) > 0 THEN OptionsOf(response.results)
    ELSE EmptyDict

---------------------------------------------------------------------------
(* The feature row *)

MODEL_COLUMNS ==
    << "base_travel_time_seconds", "day_of_week", "hour_of_day",
       "is_market_closed", "is_holiday", "weather",
       "route_name_CityCenter-to-Palace", "route_name_Fort-to-Station",
       "route_name_Highway-Bypass", "route_name_Mall-to-IIITM",
       "route_name_Thatipur-to-Morar" >>

RouteColumns == { MODEL_COLUMNS[i] : i \in 7..11 }

SeqRange(s) == { s[i] : i \in 1..Len(s) }

\* pd.DataFrame(0, index=[0], columns=columns): one row of zeros
DataFrame(columns) ==
    [columns |-> columns, row |-> [c \in SeqRange(columns) |-> 0]]

\* df.loc[0, column] = value: sets the cell, and adds the column at the
\* end when the frame has no such column
LocSet(df, column, value) ==
    IF column \in SeqRange(df.columns)
    THEN [df EXCEPT !.row = Put(df.row, column, value)]
    ELSE [columns |-> Append(df.columns, column),
          row |-> Put(df.row, column, value)]

\* df.loc[0, [c1, c2, c3]] = [v1, v2, v3]
LocSet3(df, cols, vals) ==
    LocSet(LocSet(LocSet(df, cols[1], vals[1]), cols[2], vals[2]),
           cols[3], vals[3])

\* a timestamp is a number of hours after a Monday 00:00 IST
Weekday(now_ist) == (now_ist \div 24) % 7
Hour(now_ist) == now_ist % 24
Date(now_ist) == now_ist \div 24

\* indian_holidays: the dates (days after that Monday) that are holidays
indian_holidays == {2, 7}

\* the closure day taken to be Monday
MutMarketClosedMonday(now_ist) == IF Weekday(now_ist) = 0 THEN 1 ELSE 0

\* line 168
IsMarketClosed(now_ist) == IF Weekday(now_ist) = 1 THEN 1 ELSE 0

\* the column name misspelt
MutRouteColumnTypo == "route_name_Thatipur-Morar"

\* line 171: the route column that is set to 1
RouteColumnSet == "route_name_Thatipur-to-Morar"

\* lines 166-171: prediction_df
AssembleRow(base_time, now_ist, weather_code) ==
    LET df0 == DataFrame(MODEL_COLUMNS)
        df1 == LocSet3(df0,
                   <<"base_travel_time_seconds", "day_of_week", "hour_of_day">>,
                   <<base_time, Weekday(now_ist), Hour(now_ist)>>)
        df2 == LocSet(df1, "is_market_closed", IsMarketClosed(now_ist))
        df3 == LocSet(df2, "is_holiday",
                   IF Date(now_ist) \in indian_holidays THEN 1 ELSE 0)
        df4 == LocSet(df3, "weather", weather_code)
    IN  LocSet(df4, RouteColumnSet, 1)

---------------------------------------------------------------------------
(* The st.cache_data stores *)

WeatherKey == "GWALIOR_LAT,GWALIOR_LON"
Modes == {"car", "motorcycle", "pedestrian"}

\* a call of a cached function: the stored value on a hit; on a miss the
\* function runs (one HTTP attempt) and its return value is stored
CachedCall(cache, key, computed) ==
    IF key \in DOMAIN cache
    THEN [value |-> cache[key], cache |-> cache, attempts |-> 0]
    ELSE [value |-> computed, cache |-> Put(cache, key, computed),
          attempts |-> 1]

\* The route entries live 60 s.  The store keeps the entries of one pair
\* of coordinates: a request for another pair comes after the entries of
\* the previous pair have expired.
SamePair(cache, start_coords, end_coords) ==
    [k \in {q \in DOMAIN cache : q[1] = start_coords /\ q[2] = end_coords}
        |-> cache[k]]

CachedRoute(cache, start_coords, end_coords, mode, response) ==
    CachedCall(SamePair(cache, start_coords, end_coords),
               <<start_coords, end_coords, mode>>,
               get_route_details(response))

---------------------------------------------------------------------------
(* One run of the script, block by block.  A run works on a record m:     *)
(*   ss, wc, rc   session_state and the two stores                         *)
(*   blocks       the stage blocks executed, in order                      *)
(*   rerun        st.rerun() was called: the run stops, a new one follows  *)
(*   error        the exception that ended the run, or "none"              *)
(*   rows         the frames handed to model.predict, in order             *)
(*   attempts     HTTP attempts made, per external call                    *)
(*   weather, routes, results, st_error   locals and messages of the run   *)

Stages == {"search", "confirm", "predict"}

NoAttempts == [weather |-> 0, car |-> 0, motorcycle |-> 0, pedestrian |-> 0]

StartRun(ss, wc, rc) ==
    [ss |-> ss, wc |-> wc, rc |-> rc, blocks |-> <<>>, rerun |-> FALSE,
     error |-> "none", rows |-> <<>>, attempts |-> NoAttempts,
     weather |-> None, routes |-> [mode \in Modes |-> None],
     results |-> EmptyDict, st_error |-> "none"]

\* lines 107-108
StageInit(ss) ==
    IF "stage" \notin DOMAIN ss THEN Put(ss, "stage", "search") ELSE ss

Running(m) == ~m.rerun /\ m.error = "none"

Enter(m, block) == [m EXCEPT !.blocks = Append(@, block)]

Raise(m, exception) == [m EXCEPT !.error = exception]

\* the test with `or` for `and`
MutEitherFound(origin_options, destination_options) ==
    DOMAIN origin_options # {} \/ DOMAIN destination_options # {}

\* line 134
BothFound(origin_options, destination_options) ==
    DOMAIN origin_options # {} /\ DOMAIN destination_options # {}

\* lines 134-138
SearchDecide(m) ==
    IF BothFound(m.ss.origin_options, m.ss.destination_options)
    THEN [m EXCEPT !.ss = Put(@, "stage", "confirm"), !.rerun = TRUE]
    ELSE [m EXCEPT !.st_error = "Could not find one or both locations"]

\* lines 131-133
SearchStore(m, origin_options, destination_options, user_inputs) ==
    [m EXCEPT !.ss = Put(Put(Put(@, "origin_options", origin_options),
                             "destination_options", destination_options),
                         "user_inputs", user_inputs)]

\* lines 113-138; inp.origin, inp.destination are the two text inputs,
\* inp.geo_origin, inp.geo_destination what the geocoding requests return
SearchBlock(m, click, inp) ==
    IF click # "Find Locations" THEN Enter(m, "search")
    ELSE SearchDecide(
             SearchStore(Enter(m, "search"),
                         get_location_options(inp.geo_origin),
                         get_location_options(inp.geo_destination),
                         [origin |-> inp.origin,
                          destination |-> inp.destination]))

\* the two dicts read the other way round
MutConfirmedCoordsSwapped(ss, origin_address, destination_address) ==
    [start_coords |-> ss.destination_options[destination_address],
     end_coords |-> ss.origin_options[origin_address]]

\* lines 147-148: the coordinates stored for the two selected addresses
ConfirmedCoords(ss, origin_address, destination_address) ==
    [start_coords |-> ss.origin_options[origin_address],
     end_coords |-> ss.destination_options[destination_address]]

\* lines 147-150
ConfirmStore(m, c) ==
    [m EXCEPT !.ss = Put(Put(Put(@, "start_coords", c.start_coords),
                             "end_coords", c.end_coords),
                         "stage", "predict"),
              !.rerun = TRUE]

\* lines 152-154
ConfirmStartOver(m) ==
    [m EXCEPT !.ss = IF "results" \in DOMAIN @
                     THEN Del(Put(@, "stage", "search"), "results")
                     ELSE Put(@, "stage", "search"),
              !.rerun = TRUE]

\* lines 140-154; inp.origin_address, inp.destination_address are the
\* radio selections
ConfirmBlock(m, click, inp) ==
    IF \/ "origin_options" \notin DOMAIN m.ss
       \/ "destination_options" \notin DOMAIN m.ss
    THEN Raise(Enter(m, "confirm"), "AttributeError")
    ELSE IF click = "Get Forecasts"
    THEN IF \/ inp.origin_address \notin DOMAIN m.ss.origin_options
            \/ inp.destination_address \notin DOMAIN m.ss.destination_options
         THEN Raise(Enter(m, "confirm"), "KeyError")
         ELSE ConfirmStore(Enter(m, "confirm"),
                           ConfirmedCoords(m.ss, inp.origin_address,
                                           inp.destination_address))
    ELSE IF click = "Start Over" THEN ConfirmStartOver(Enter(m, "confirm"))
    ELSE Enter(m, "confirm")

\* line 162, with what the cached call gave
WeatherCalled(m, w) ==
    [m EXCEPT !.wc = w.cache, !.weather = Some(w.value),
              !.attempts.weather = @ + w.attempts]

CallWeather(m, inp) ==
    WeatherCalled(m, CachedCall(m.wc, WeatherKey,
                                get_live_weather(inp.weather)))

\* lines 164, 177, 179, with what the cached call gave
RouteCalled(m, mode, r) ==
    [m EXCEPT !.rc = r.cache, !.routes[mode] = Some(r.value),
              !.attempts[mode] = @ + r.attempts]

CallRoute(m, mode, inp) ==
    RouteCalled(m, mode,
                CachedRoute(m.rc, m.ss.start_coords, m.ss.end_coords,
                            mode, inp.route[mode]))

\* line 165: the guard of the inference
BaseTimeGuard(base_time) == Truthy(base_time)

\* lines 173-175
CarResults(predicted_seconds, status) ==
    Put(Put(EmptyDict, "car_ml", TrueDiv(predicted_seconds, 60)),
        "traffic_status", status[1] \o " " \o status[2])

\* lines 165-175; predicted_seconds is what model.predict returns
Infer(m, base_time, weather_code, now_ist, predicted_seconds) ==
    IF BaseTimeGuard(base_time)
    THEN [m EXCEPT
            !.rows = Append(@, AssembleRow(IF base_time = None THEN None
                                           ELSE Val(base_time),
                                           now_ist, weather_code)),
            !.results = CarResults(predicted_seconds,
                            get_traffic_status(predicted_seconds, base_time))]
    ELSE m

\* lines 178, 180
StoreMinutes(m, mode, live_time) ==
    IF Truthy(live_time)
    THEN [m EXCEPT !.results = Put(@, mode, TrueDiv(Val(live_time), 60))]
    ELSE m

\* lines 183, 204-206
PredictEnd(m, click) ==
    IF "user_inputs" \notin DOMAIN m.ss THEN Raise(m, "AttributeError")
    ELSE IF click = "New Search"
    THEN [m EXCEPT !.ss = Put(@, "stage", "search"), !.rerun = TRUE]
    ELSE m

\* lines 162-175
PredictCar(m, inp) ==
    Infer(m, Val(m.routes["car"])[2], Val(m.weather)[1], inp.now_ist,
          inp.output)

\* lines 177-178 and 179-180
PredictMode(m, mode) == StoreMinutes(m, mode, Val(m.routes[mode])[1])

\* lines 156-206; inp.now_ist is datetime.now(IST), inp.weather and
\* inp.route[mode] what the HTTP requests return when they are made,
\* inp.output what model.predict returns
PredictBlock(m, click, inp) ==
    IF "start_coords" \notin DOMAIN m.ss \/ "end_coords" \notin DOMAIN m.ss
    THEN Raise(Enter(m, "predict"), "AttributeError")
    ELSE PredictEnd(
           PredictMode(CallRoute(
             PredictMode(CallRoute(
               PredictCar(CallRoute(CallWeather(Enter(m, "predict"), inp),
                                    "car", inp),
                          inp),
               "motorcycle", inp), "motorcycle"),
             "pedestrian", inp), "pedestrian"),
           click)

\* one `if st.session_state.stage == ...` of lines 113, 140, 156
RunSearch(m, click, inp) ==
    IF m.ss.stage = "search" THEN SearchBlock(m, click, inp) ELSE m
RunConfirm(m, click, inp) ==
    IF Running(m) /\ m.ss.stage = "confirm" THEN ConfirmBlock(m, click, inp)
    ELSE m
RunPredict(m, click, inp) ==
    IF Running(m) /\ m.ss.stage = "predict" THEN PredictBlock(m, click, inp)
    ELSE m

\* one run of the script from the top
Run(ss, wc, rc, click, inp) ==
    RunPredict(
        RunConfirm(
            RunSearch(StartRun(StageInit(ss), wc, rc), click, inp),
            click, inp),
        click, inp)

---------------------------------------------------------------------------
(* What the user and the outside world can supply *)

\* texts typed into the two location fields: (origin, destination)
Trips == { <<"Fort", "Station">> }

\* the places the geocoder knows for a text
GeoResults(query) ==
    IF query = "Fort"
    THEN { [address |-> "Gwalior Fort, Gwalior",
            position |-> "26.2313,78.1695"],
           [address |-> "Fort Road, Gwalior",
            position |-> "26.2270,78.1750"] }
    ELSE { [address |-> "Railway Station, Gwalior",
            position |-> "26.2160,78.1822"] }

RECURSIVE SeqsUpTo(_, _)
SeqsUpTo(S, n) ==
    IF n = 0 THEN {<<>>}
    ELSE LET shorter == SeqsUpTo(S, n - 1)
         IN  shorter \cup { Append(q, x) : q \in shorter, x \in S }

\* a failed request, or a list of up to MaxGeoResults places
GeoResponses(query) ==
    {RaisedResponse}
        \cup { [results |-> r] :
                 r \in SeqsUpTo(GeoResults(query), MaxGeoResults) }

\* weather responses of the application runs
AppWeatherResponses ==
    {RaisedResponse, WeatherResponse("Clouds"), WeatherResponse("Rain")}

RoutePoints == <<[latitude |-> 26, longitude |-> 78]>>
RouteResponse(summary) ==
    [routes |-> <<[summary |-> summary, legs |-> <<[points |-> RoutePoints]>>]>>]

\* routing responses of the application runs.  For the car: a failed
\* request, a route with live traffic, a route of three hours without the
\* traffic field, a route of zero seconds.  For the other modes: a failed
\* request or a route.
AppRouteResponses(mode) ==
    IF mode = "car"
    THEN { RaisedResponse,
           RouteResponse([travelTimeInSeconds |-> 720,
                          trafficTravelTimeInSeconds |-> 900]),
           RouteResponse([travelTimeInSeconds |-> 10800]),
           RouteResponse([travelTimeInSeconds |-> 0]) }
    ELSE { [routes |-> <<>>],
           RouteResponse([travelTimeInSeconds |-> 1500]) }

\* datetime.now(IST) of the application runs: a Tuesday, 09:00
AppTimestamps == {33}

\* what model.predict returns in the application runs, in seconds
ModelOutputs == {900}

---------------------------------------------------------------------------
(* The application: one action per run of the script *)

NoCall == [fn |-> "none"]

IdleRequest ==
    [state |-> "idle", predicts |-> 0, attempts |-> NoAttempts, reruns |-> 0]

\* the model.predict calls and HTTP attempts of a prediction request: it
\* opens with the click on Get Forecasts and is closed by the run that
\* sets the stage back to search
NextRequest(click, m) ==
    IF click = "Get Forecasts"
    THEN [IdleRequest EXCEPT !.state = "open"]
    ELSE IF request.state = "open"
    THEN [state |-> IF m.ss.stage = "search" THEN "closed" ELSE "open",
          predicts |-> request.predicts + Len(m.rows),
          attempts |-> [k \in DOMAIN NoAttempts |->
                           request.attempts[k] + m.attempts[k]],
          reruns |-> request.reruns
                       + (IF click = "none" /\ ~rerun_requested THEN 1 ELSE 0)]
    ELSE IdleRequest

\* what a run leaves behind
Commit(click, m) ==
    /\ session_state' = m.ss
    /\ weather_cache' = m.wc
    /\ route_cache' = m.rc
    /\ rerun_requested' = m.rerun
    /\ last_run' = [click |-> click, blocks |-> m.blocks,
                    error |-> m.error, rows |-> m.rows,
                    results |-> m.results, weather |-> m.weather,
                    routes |-> m.routes, st_error |-> m.st_error]
    /\ request' = NextRequest(click, m)
    /\ UNCHANGED <<TOMTOM_API_KEY, call>>

\* one run of the script, started by a click or (click = "none") by
\* anything else
Do(click, inp) ==
    Commit(click, Run(session_state, weather_cache, route_cache, click, inp))

NoInput ==
    [origin |-> "", destination |-> "",
     geo_origin |-> RaisedResponse, geo_destination |-> RaisedResponse,
     origin_address |-> "", destination_address |-> "",
     now_ist |-> 0, weather |-> RaisedResponse,
     route |-> [mode \in Modes |-> RaisedResponse], output |-> 0]

\* the inputs a run of the predict block can meet: a response only for a
\* request that is made (a store miss)
PredictInputs ==
    { [NoInput EXCEPT !.now_ist = now, !.weather = w, !.route = r,
                      !.output = out] :
        now \in AppTimestamps,
        w \in IF WeatherKey \in DOMAIN weather_cache
              THEN {RaisedResponse} ELSE AppWeatherResponses,
        r \in IF <<session_state.start_coords, session_state.end_coords,
                   "car">> \in DOMAIN route_cache
              THEN {NoInput.route}
              ELSE { f \in [Modes -> UNION {AppRouteResponses(mode) :
                                               mode \in Modes}] :
                       \A mode \in Modes : f[mode] \in AppRouteResponses(mode) },
        out \in ModelOutputs }

\* the inputs of the run a stage shows
StageInputs ==
    IF session_state.stage = "predict" THEN PredictInputs ELSE {NoInput}

\* the button is disabled without the API key (line 127)
FindLocations ==
    /\ ~rerun_requested
    /\ session_state.stage = "search"
    /\ TOMTOM_API_KEY # ""
    /\ \E trip \in Trips :
         \E geo_origin \in GeoResponses(trip[1]),
            geo_destination \in GeoResponses(trip[2]) :
            Do("Find Locations",
               [NoInput EXCEPT !.origin = trip[1],
                               !.destination = trip[2],
                               !.geo_origin = geo_origin,
                               !.geo_destination = geo_destination])

GetForecasts ==
    /\ ~rerun_requested
    /\ session_state.stage = "confirm"
    /\ \E origin_address \in DOMAIN session_state.origin_options,
          destination_address \in DOMAIN session_state.destination_options :
            Do("Get Forecasts",
               [NoInput EXCEPT !.origin_address = origin_address,
                               !.destination_address = destination_address])

StartOver ==
    /\ ~rerun_requested
    /\ session_state.stage = "confirm"
    /\ Do("Start Over", NoInput)

NewSearch ==
    /\ ~rerun_requested
    /\ session_state.stage = "predict"
    /\ \E inp \in PredictInputs : Do("New Search", inp)

\* any other interaction that reruns the script: a text field, a radio
\* button, the rerun key
Rerun ==
    /\ ~rerun_requested
    /\ session_state.stage = "predict" => request.reruns < MaxReruns
    /\ \E inp \in StageInputs : Do("none", inp)

\* the run that st.rerun() starts
RerunRequested ==
    /\ rerun_requested
    /\ \E inp \in StageInputs : Do("none", inp)

\* 600 s pass: the weather entry expires
ExpireWeather ==
    /\ ~rerun_requested
    /\ DOMAIN weather_cache # {}
    /\ weather_cache' = EmptyDict
    /\ UNCHANGED <<TOMTOM_API_KEY, session_state, route_cache,
                   rerun_requested, last_run, request, call>>

\* 60 s pass: the route entries expire
ExpireRoutes ==
    /\ ~rerun_requested
    /\ DOMAIN route_cache # {}
    /\ route_cache' = EmptyDict
    /\ UNCHANGED <<TOMTOM_API_KEY, session_state, weather_cache,
                   rerun_requested, last_run, request, call>>

\* the session after the first run of the script
SessionInit ==
    /\ TOMTOM_API_KEY \in {"", "key"}
    /\ session_state = StageInit(EmptyDict)
    /\ weather_cache = EmptyDict
    /\ route_cache = EmptyDict
    /\ rerun_requested = FALSE
    /\ last_run = [click |-> "none", blocks |-> <<"search">>,
                   error |-> "none", rows |-> <<>>, results |-> EmptyDict,
                   weather |-> None, routes |-> [mode \in Modes |-> None],
                   st_error |-> "none"]
    /\ request = IdleRequest

Init == SessionInit /\ call = NoCall

Next ==
    \/ FindLocations
    \/ GetForecasts
    \/ StartOver
    \/ NewSearch
    \/ Rerun
    \/ RerunRequested
    \/ ExpireWeather
    \/ ExpireRoutes

Spec == Init /\ [][Next]_vars

---------------------------------------------------------------------------
(* The helper functions on their own: the arguments are chosen at the     *)
(* start, one action makes the call.                                       *)

Session == <<TOMTOM_API_KEY, session_state, weather_cache, route_cache,
             rerun_requested, last_run, request>>

IdleSession == SessionInit /\ TOMTOM_API_KEY = "key"

Return(value) ==
    /\ ~call.returned
    /\ call' = [call EXCEPT !.returned = TRUE, !.value = value]
    /\ UNCHANGED Session

\* get_traffic_status(predicted_time, base_time)
StatusTimes == { k * TimeStep : k \in (0 - MaxSteps)..MaxSteps }

InitStatus ==
    /\ IdleSession
    /\ call \in { [fn |-> "get_traffic_status", predicted_time |-> p,
                   base_time |-> b, returned |-> FALSE, value |-> <<>>] :
                    p \in StatusTimes,
                    b \in {None} \cup { Some(t) : t \in StatusTimes } }

CallTrafficStatus ==
    Return(get_traffic_status(call.predicted_time, call.base_time))

SpecStatus == InitStatus /\ [][CallTrafficStatus]_vars

\* get_live_weather: the condition strings are up to MaxWords of these
\* words, and the other responses are a failed request, an error body, an
\* empty weather list and an entry without 'main'
WeatherWords ==
    {"Rain", "Drizzle", "Thunderstorm", "Clouds", "Clear", "Snow", "Mist",
     "rain"}

RECURSIVE Phrases(_)
Phrases(n) ==
    IF n = 0 THEN {""}
    ELSE LET shorter == Phrases(n - 1)
         IN  shorter \cup { IF q = "" THEN w ELSE q \o " " \o w :
                              q \in shorter, w \in WeatherWords }

WeatherResponses ==
    { RaisedResponse, [cod |-> 401], [weather |-> <<>>],
      [weather |-> <<[id |-> 800]>>] }
        \cup { WeatherResponse(main) : main \in Phrases(MaxWords) }

InitWeather ==
    /\ IdleSession
    /\ call \in { [fn |-> "get_live_weather", response |-> r,
                   returned |-> FALSE, value |-> <<>>] :
                    r \in WeatherResponses }

CallLiveWeather == Return(get_live_weather(call.response))

SpecWeather == InitWeather /\ [][CallLiveWeather]_vars

\* the assembly of prediction_df
BaseTimes == {1, 720, 10800}

InitAssemble ==
    /\ IdleSession
    /\ call \in { [fn |-> "prediction_df", base_time |-> b, now_ist |-> t,
                   weather_code |-> w, returned |-> FALSE, value |-> <<>>] :
                    b \in BaseTimes, t \in 0..MaxHour, w \in 0..2 }

CallAssemble ==
    Return(AssembleRow(call.base_time, call.now_ist, call.weather_code))

SpecAssemble == InitAssemble /\ [][CallAssemble]_vars

---------------------------------------------------------------------------
(* The claims *)

\* 10 * p / b < tenths, stated on the integers
RatioBelowTenths(p, b, tenths) ==
    IF b > 0 THEN 10 * p < tenths * b ELSE 10 * p > tenths * b

\* C1: get_traffic_status returns one of the four labels for every
\* predicted_time and base_time: Unknown when base_time is None or 0,
\* otherwise Light when predicted/base < 1.2, Moderate when
\* 1.2 <= predicted/base < 1.6 and Heavy when predicted/base >= 1.6.
C1_TrafficStatusTotal ==
    (call.fn = "get_traffic_status" /\ call.returned) =>
        LET p == call.predicted_time
            b == call.base_time
        IN  /\ call.value \in {Unknown, Light, Moderate, Heavy}
            /\ (b = None \/ b = Some(0)) <=> call.value = Unknown
            /\ (b # None /\ b # Some(0)) =>
                 /\ call.value = Light <=> RatioBelowTenths(p, Val(b), 12)
                 /\ call.value = Moderate <=>
                        /\ ~RatioBelowTenths(p, Val(b), 12)
                        /\ RatioBelowTenths(p, Val(b), 16)
                 /\ call.value = Heavy <=> ~RatioBelowTenths(p, Val(b), 16)

\* 600 / 500 is exactly 1.2 and is Moderate
C1_Witness ==
    /\ call.fn = "get_traffic_status" /\ call.returned
    /\ call.predicted_time = 600 /\ call.base_time = Some(500)
    /\ call.value = Moderate

\* the route column of the trip typed by the user
SelectedRouteColumn(user_inputs) ==
    "route_name_" \o user_inputs.origin \o "-to-" \o user_inputs.destination

\* C2: in every row handed to model.predict the route column of the trip's
\* route is 1 and the other route columns are 0.
C2_SelectedRouteOneHot ==
    \A i \in 1..Len(last_run.rows) :
        \A c \in RouteColumns :
            last_run.rows[i].row[c] =
                IF c = SelectedRouteColumn(session_state.user_inputs)
                THEN 1 ELSE 0

\* the base travel time the car routing call of the last run returned
CarBaseTime == Val(last_run.routes["car"])[2]

\* C3: model.predict is invoked only for a base travel time that is
\* positive and below 10,800 seconds; otherwise there is no inference and
\* no car prediction in results.
C3_InferenceBelowCeiling ==
    "predict" \in SeqRange(last_run.blocks) =>
        IF CarBaseTime # None /\ Val(CarBaseTime) > 0
                              /\ Val(CarBaseTime) < 10800
        THEN TRUE
        ELSE /\ last_run.rows = <<>>
             /\ "car_ml" \notin DOMAIN last_run.results

\* the geocoding results of the session are both non-empty
BothGeocoded ==
    /\ "origin_options" \in DOMAIN session_state
    /\ "destination_options" \in DOMAIN session_state
    /\ DOMAIN session_state.origin_options # {}
    /\ DOMAIN session_state.destination_options # {}

\* C4: model.predict is invoked only when both geocoding results are
\* non-empty and the car routing call returned a route with a base travel
\* time; a Find Locations run with an empty geocoding result leaves the
\* stage at search; a predict run without a car route makes no inference.
C4_NoInferenceWithoutInputs ==
    /\ [](last_run.rows # <<>> =>
            /\ BothGeocoded
            /\ last_run.routes["car"] # Some(NoRoute)
            /\ Truthy(CarBaseTime))
    /\ []( ("predict" \in SeqRange(last_run.blocks)
              /\ last_run.routes["car"] = Some(NoRoute))
            => last_run.rows = <<>> )
    /\ [][ (last_run'.click = "Find Locations"
              /\ (\/ DOMAIN session_state'.origin_options = {}
                  \/ DOMAIN session_state'.destination_options = {}))
            => (session_state'.stage = "search" /\ ~rerun_requested') ]_vars

C4_Witness ==
    /\ last_run.rows # <<>>
    /\ BothGeocoded
    /\ Truthy(CarBaseTime)

\* C5: the row handed to model.predict has exactly the columns of
\* MODEL_COLUMNS, in that order, for every base time, timestamp and
\* weather code.
C5_RowHasModelColumns ==
    (call.fn = "prediction_df" /\ call.returned) =>
        /\ call.value.columns = MODEL_COLUMNS
        /\ Len(call.value.columns) = 11
        /\ DOMAIN call.value.row = SeqRange(MODEL_COLUMNS)

C5_Witness ==
    /\ call.fn = "prediction_df" /\ call.returned
    /\ call.base_time = 720 /\ call.now_ist = 57 /\ call.weather_code = 2
    /\ Len(call.value.columns) = 11

\* the code the claim gives a condition string
ClaimedWeatherCode(main) ==
    IF \E w \in {"Rain", "Drizzle", "Thunderstorm"} : Contains(main, w) THEN 2
    ELSE IF Contains(main, "Clouds") THEN 1
    ELSE 0

\* C6: get_live_weather returns code 2 for a condition that contains Rain,
\* Drizzle or Thunderstorm, 1 for one that contains Clouds and none of
\* them, 0 for every other string; the code is always 0, 1 or 2.
C6_WeatherCode ==
    (call.fn = "get_live_weather" /\ call.returned) =>
        /\ call.value[1] \in {0, 1, 2}
        /\ \A main \in Phrases(MaxWords) :
             call.response = WeatherResponse(main) =>
                call.value[1] = ClaimedWeatherCode(main)
        /\ (call.response = WeatherResponse("Thunderstorm")
                => call.value[1] = 2)
        /\ (call.response = WeatherResponse("Clouds") => call.value[1] = 1)
        /\ (call.response = WeatherResponse("Clear") => call.value[1] = 0)
        /\ (call.response = WeatherResponse("") => call.value[1] = 0)

\* a condition with both Clouds and Rain is rainy
C6_Witness ==
    /\ call.fn = "get_live_weather" /\ call.returned
    /\ call.response = WeatherResponse("Clouds Rain")
    /\ call.value[1] = 2

\* the weather call of the last run gave the default of the except branch
WeatherDefaulted ==
    /\ "predict" \in SeqRange(last_run.blocks)
    /\ last_run.weather # None
    /\ Val(last_run.weather)[2] = "Clear (default)"

\* C7: after a failed weather call the weather code is 0 and, when the car
\* route is available, the row is built with weather = 0 and model.predict
\* is invoked.
C7_WeatherFailureKeepsPrediction ==
    WeatherDefaulted =>
        /\ last_run.error = "none"
        /\ Val(last_run.weather)[1] = 0
        /\ Truthy(CarBaseTime) =>
             /\ Len(last_run.rows) = 1
             /\ last_run.rows[1].row["weather"] = 0
             /\ "car_ml" \in DOMAIN last_run.results

C7_Witness ==
    /\ WeatherDefaulted
    /\ Truthy(CarBaseTime)
    /\ Len(last_run.rows) = 1

\* C8: in the row, is_market_closed is 1 exactly when day_of_week is 1;
\* day_of_week (0..6) and hour_of_day (0..23) are those of the timestamp;
\* base_travel_time_seconds and weather are the base time and the weather
\* code.
C8_RowFields ==
    (call.fn = "prediction_df" /\ call.returned) =>
        LET row == call.value.row
        IN  /\ row["is_market_closed"] \in {0, 1}
            /\ row["is_market_closed"] = 1 <=> row["day_of_week"] = 1
            /\ row["day_of_week"] \in 0..6
            /\ row["hour_of_day"] \in 0..23
            /\ \E day \in 0..(MaxHour \div 24 + 1) :
                 /\ call.now_ist = 24 * day + row["hour_of_day"]
                 /\ day % 7 = row["day_of_week"]
            /\ row["base_travel_time_seconds"] = call.base_time
            /\ row["weather"] = call.weather_code

\* a Tuesday
C8_Witness ==
    /\ call.fn = "prediction_df" /\ call.returned
    /\ call.now_ist = 33
    /\ call.value.row["day_of_week"] = 1
    /\ call.value.row["is_market_closed"] = 1

\* C9: from the click on Get Forecasts to the return to the search stage
\* model.predict is called once and each external call is attempted once:
\* here, no more than once.
C9_OncePerRequest ==
    request.state = "closed" =>
        /\ request.predicts <= 1
        /\ \A k \in DOMAIN request.attempts : request.attempts[k] <= 1

DictValues(d) == { d[k] : k \in DOMAIN d }

\* C10: the stage is search, confirm or predict; no run reads a session
\* key that is not set; when the confirm block runs both option dicts are
\* non-empty; when the predict block runs user_inputs and the coordinates
\* are set, the coordinates being values of the two option dicts; predict
\* is entered only from confirm and confirm only from search.
C10_SessionKeys ==
    /\ [](/\ session_state.stage \in Stages
          /\ last_run.error = "none"
          /\ "confirm" \in SeqRange(last_run.blocks) => BothGeocoded
          /\ "predict" \in SeqRange(last_run.blocks) =>
               /\ {"user_inputs", "start_coords", "end_coords"}
                      \subseteq DOMAIN session_state
               /\ BothGeocoded
               /\ session_state.start_coords
                      \in DictValues(session_state.origin_options)
               /\ session_state.end_coords
                      \in DictValues(session_state.destination_options))
    /\ [][ /\ (session_state'.stage = "predict"
                 => session_state.stage \in {"confirm", "predict"})
           /\ (session_state'.stage = "confirm"
                 => session_state.stage \in {"search", "confirm"}) ]_vars

\* the second origin candidate was selected
C10_Witness ==
    /\ "predict" \in SeqRange(last_run.blocks)
    /\ session_state.stage = "predict"
    /\ session_state.start_coords = "26.2270,78.1750"
    /\ Cardinality(DOMAIN session_state.origin_options) = 2

===========================================================================
